---- MODULE Spec2Model ----
(***************************************************************************)
(* Retention analytics of the FFP attendance spreadsheet.                  *)
(*                                                                         *)
(*   SpecTrend  retention-trend.py, run_retention_trend: load and prepare, *)
(*              cohort table, churn series, rolling new-joiner retention.  *)
(*   SpecApp    pyqt5UI-chart-with-map.py, RetentionApp: threshold clicks  *)
(*              (set_and_run) and export clicks (generate_excel).          *)
(*   SpecEngage Engagement_Analysis.py: column validation, the 60-day      *)
(*              filter, the weekly workday buckets and the heatmap matrix. *)
(*   SpecSummary trend_summary.py, generate_trend_summary: cleaning, the   *)
(*              30/30 split of the trailing 60 days and the text sections. *)
(*                                                                         *)
(* A date is the integer month * 100 + day; months are numbered from       *)
(* January (1) of a non-leap year.  A percentage that the code computes as *)
(* a float is kept exact, as the pair <<numerator, denominator>>; a        *)
(* denominator of 0 is an undefined value (NaN, a division by zero).       *)
(***************************************************************************)
EXTENDS Integers, Sequences, FiniteSets, TLC

\* ------------------------------------------------------------------------
\* Bounds of the enumerated spreadsheets
\* ------------------------------------------------------------------------
MaxRows == 5

\* The enumerated spreadsheets cover February to April, two people and two
\* days of a month (the 30th does not exist in February).
Months == 2..4
Persons == {"A", "B"}
DaysOfMonth == {1, 30}

\* ------------------------------------------------------------------------
\* Calendar and cell values
\* ------------------------------------------------------------------------
NaT == 0
BadDate == -1

CalendarMonth(m) == ((m + 119) % 12) + 1

DaysIn(m) ==
    LET c == CalendarMonth(m)
    IN  IF c = 2 THEN 28
        ELSE IF c \in {4, 6, 9, 11} THEN 30
        ELSE 31

MkDate(m, d) == m * 100 + d

Dates == UNION {{MkDate(m, d) : d \in {x \in DaysOfMonth : x <= DaysIn(m)}} : m \in Months}

\* The programme that runs on a date (the "Activity type" column).
ActivityOn(date) == IF date % 100 = 1 THEN "Football" ELSE "Boxing"

\* dt.to_period("M")
ToPeriodM(date) == date \div 100

\* A cell that holds a date of the calendar.
IsDate(cell) == cell > 0 /\ cell % 100 >= 1 /\ cell % 100 <= DaysIn(cell \div 100)

\* pd.to_datetime(..., errors="coerce"): an unparseable cell becomes NaT.
ToDatetime(cell) == IF IsDate(cell) THEN cell ELSE NaT

\* The days of the year before the first day of month m.
RECURSIVE DaysBefore(_)
DaysBefore(m) ==
    IF m = 1 THEN 0
    ELSE IF m > 1 THEN DaysBefore(m - 1) + DaysIn(m - 1)
    ELSE DaysBefore(m + 1) - DaysIn(m)

\* The number of the day in the year (1 for 1 January): the difference of
\* two day numbers is the Timedelta between the two dates, in days.
DayNumber(date) == DaysBefore(date \div 100) + (date % 100)

\* The date that is day n of month m, n counted on into the months after m
\* and back into the months before it.
RECURSIVE DateOfDay(_, _)
DateOfDay(n, m) ==
    IF n < 1 THEN DateOfDay(n + DaysIn(m - 1), m - 1)
    ELSE IF n > DaysIn(m) THEN DateOfDay(n - DaysIn(m), m + 1)
    ELSE MkDate(m, n)

\* date - timedelta(days=n)
MinusDays(date, n) == DateOfDay((date % 100) - n, date \div 100)

\* dt.dayofweek, 0 for Monday; the year is 2025, whose 1 January is a
\* Wednesday.
DayOfWeek(date) == (DayNumber(date) + 1) % 7

Min(S) == CHOOSE x \in S : \A y \in S : x <= y
Max(S) == CHOOSE x \in S : \A y \in S : x >= y

\* The elements of a finite set of integers, ascending.
RECURSIVE SortedSeq(_)
SortedSeq(S) == IF S = {} THEN <<>> ELSE <<Min(S)>> \o SortedSeq(S \ {Min(S)})

\* ------------------------------------------------------------------------
\* The spreadsheets that are enumerated: up to MaxRows rows of sheet "Main".
\* The order of the rows decides only which of several rows of one person
\* and date drop_duplicates keeps, and those rows are equal here; no other
\* operation reads it.  One row order per multiset of rows is enumerated
\* (rows ascending by RowKey).
\* ------------------------------------------------------------------------
SheetRows == {[id |-> p, date |-> c, act |-> ActivityOn(c)] : p \in Persons, c \in Dates \cup {BadDate}}

RowKey(r) == (IF r.id = "A" THEN 0 ELSE 1) * 100000 + (r.date + 1)

RECURSIVE SheetsOfLen(_)
SheetsOfLen(n) ==
    IF n = 0 THEN {<<>>}
    ELSE UNION {{Append(s, r) : r \in {x \in SheetRows : Len(s) = 0 \/ RowKey(s[Len(s)]) <= RowKey(x)}} :
                s \in SheetsOfLen(n - 1)}

Sheets == UNION {SheetsOfLen(n) : n \in 0..MaxRows}

\* ------------------------------------------------------------------------
\* State
\* ------------------------------------------------------------------------
VARIABLES
    sheet_exists,       \* os.path.exists(FILE_PATH)
    sheet,              \* the rows of sheet "Main" of the spreadsheet
    pc,                 \* position in run_retention_trend
    df,                 \* retention-trend: the prepared frame
    cohort_pivot,       \* retention-trend: (JoinMonth, MonthOffset) -> count
    retention,          \* retention-trend: (JoinMonth, MonthOffset) -> rate
    overall,            \* retention-trend: the churn series
    months,             \* retention-trend: list(month_groups.index)
    i,                  \* retention-trend: loop index of the rolling retention
    prev_joiners_only,  \* retention-trend: loop local
    retained,           \* retention-trend: loop local
    retention_rate,     \* retention-trend: loop local
    results,            \* retention-trend: rows of the rolling retention
    selfdf,             \* RetentionApp: self.df
    selected_sessions,  \* RetentionApp: self.selected_sessions
    highlighted,        \* RetentionApp: the session button drawn green
    result_label,       \* RetentionApp: what self.result_label shows
    last_retained,      \* RetentionApp: self.last_retained
    last_df_eligible,   \* RetentionApp: self.last_df_eligible
    files,              \* folder "Retention Excels": threshold -> report file
    opened,             \* report files handed to the desktop's viewer
    run_geo_btn,        \* RetentionApp: self.run_geo_btn (enabled, text)
    geo_process,        \* RetentionApp: state of the QProcess self.geo_process
    geo_exited,         \* the child has ended and Qt has not yet seen it
    columns,            \* the column names of sheet "Main"
    eng_pc,             \* position in Engagement_Analysis.py
    eng_df,             \* Engagement_Analysis: df
    weekly,             \* Engagement_Analysis: (Attendee ID, Week) -> Days_Attended
    pivot_df,           \* Engagement_Analysis: the matrix of the heatmap
    total_count,        \* Engagement_Analysis: len(sorted_ids)
    num_groups_var,     \* Engagement_Analysis: the radio buttons' IntVar
    dropdown,           \* Engagement_Analysis: dropdown["values"]
    group_var,          \* Engagement_Analysis: the selected range label
    subset_ids,         \* Engagement_Analysis: ranks of the participants drawn
    sum_pc,             \* position in generate_trend_summary
    sum_df,             \* trend_summary: df
    df_first30,         \* trend_summary: the first half of the 60-day window
    df_last30,          \* trend_summary: the last half of the 60-day window
    summary_text        \* trend_summary: the sections of the returned text

trendVars == <<pc, df, cohort_pivot, retention, overall, months, i,
               prev_joiners_only, retained, retention_rate, results>>

geoVars == <<run_geo_btn, geo_process, geo_exited>>

appVars == <<selfdf, selected_sessions, highlighted, result_label, last_retained,
             last_df_eligible, files, opened, geoVars>>

uiVars == <<num_groups_var, dropdown, group_var, subset_ids>>

engVars == <<eng_pc, eng_df, weekly, pivot_df, total_count, uiVars>>

sumVars == <<sum_pc, sum_df, df_first30, df_last30, summary_text>>

vars == <<sheet_exists, sheet, columns, trendVars, appVars, engVars, sumVars>>

\* ------------------------------------------------------------------------
\* retention-trend.py: 1. Load and Prepare Data
\* ------------------------------------------------------------------------
CoerceDates(rows) == [k \in DOMAIN rows |-> [rows[k] EXCEPT !.date = ToDatetime(rows[k].date)]]

\* df.dropna(subset=["Date", "Attendee ID"]); no enumerated row has a blank id.
DropNa(rows) == SelectSeq(rows, LAMBDA r : r.date # NaT)

SameDay(r1, r2) == r1.id = r2.id /\ r1.date = r2.date

DropDuplicatesNone(rows) == rows

DropOneDuplicate(rows) ==
    LET dup == {k \in DOMAIN rows : \E j \in 1..(k - 1) : SameDay(rows[j], rows[k])}
    IN  IF dup = {} THEN rows
        ELSE [k \in 1..(Len(rows) - 1) |-> IF k < Min(dup) THEN rows[k] ELSE rows[k + 1]]

\* df.drop_duplicates(subset=["Attendee ID", "Date"]): the first row of each
\* (Attendee ID, Date) is kept.
DropDuplicates(rows) ==
    LET F[k \in 0..Len(rows)] ==
            IF k = 0 THEN <<>>
            ELSE IF \E j \in 1..(k - 1) : SameDay(rows[j], rows[k])
                 THEN F[k - 1]
                 ELSE Append(F[k - 1], rows[k])
    IN  F[Len(rows)]

\* groupby("Attendee ID")["Date"].transform("min")
FirstDate(rows, p) == Min({rows[k].date : k \in {j \in DOMAIN rows : rows[j].id = p}})

LastDate(rows, p) == Max({rows[k].date : k \in {j \in DOMAIN rows : rows[j].id = p}})

JoinMonthOfMax(rows, p) == ToPeriodM(LastDate(rows, p))

JoinMonthOfFrame(rows, p) == ToPeriodM(Min({rows[k].date : k \in DOMAIN rows}))

ObservedJoinMonths(rows) == {rows[k].JoinMonth : k \in DOMAIN rows}

JoinMonthOf(rows, p) == ToPeriodM(FirstDate(rows, p))

MonthFields(rows) ==
    [k \in DOMAIN rows |->
        [id |-> rows[k].id, date |-> rows[k].date, act |-> rows[k].act,
         Month |-> ToPeriodM(rows[k].date),
         JoinMonth |-> JoinMonthOf(rows, rows[k].id),
         MonthOffset |-> ToPeriodM(rows[k].date) - JoinMonthOf(rows, rows[k].id)]]

Prepare(rows) == MonthFields(DropDuplicates(DropNa(CoerceDates(rows))))

FileNotFound ==
    /\ pc = "start"
    /\ ~sheet_exists
    /\ pc' = "returned"
    /\ UNCHANGED <<sheet_exists, sheet, columns, engVars, sumVars, appVars, df, cohort_pivot, retention, overall, months, i,
                   prev_joiners_only, retained, retention_rate, results>>

LoadAndPrepare ==
    /\ pc = "start"
    /\ sheet_exists
    /\ df' = Prepare(sheet)
    /\ pc' = "prepared"
    /\ UNCHANGED <<sheet_exists, sheet, columns, engVars, sumVars, appVars, cohort_pivot, retention, overall, months, i,
                   prev_joiners_only, retained, retention_rate, results>>

\* ------------------------------------------------------------------------
\* retention-trend.py: 2. Cohort Retention Table
\* ------------------------------------------------------------------------
RowCount(rows, J, o) ==
    Cardinality({k \in DOMAIN rows : rows[k].JoinMonth = J /\ rows[k].MonthOffset = o})

\* groupby(["JoinMonth", "MonthOffset"])["Attendee ID"].nunique()
Nunique(rows, J, o) ==
    Cardinality({rows[k].id : k \in {j \in DOMAIN rows : rows[j].JoinMonth = J /\ rows[j].MonthOffset = o}})

\* The cells of the pivot that hold a number; the others are NaN.
Cohort(rows) ==
    [c \in {<<rows[k].JoinMonth, rows[k].MonthOffset>> : k \in DOMAIN rows} |->
        Nunique(rows, c[1], c[2])]

\* cohort_pivot.divide(cohort_pivot[0], axis=0) * 100
Retention(pivot) ==
    [c \in DOMAIN pivot |->
        <<pivot[c] * 100, IF <<c[1], 0>> \in DOMAIN pivot THEN pivot[<<c[1], 0>>] ELSE 0>>]

\* cohort_pivot[0] raises KeyError when the frame is empty: the pivot of an
\* empty frame has no column 0.
CohortTable ==
    /\ pc = "prepared"
    /\ cohort_pivot' = Cohort(df)
    /\ IF df = <<>>
       THEN /\ pc' = "error"
            /\ UNCHANGED retention
       ELSE /\ pc' = "cohort"
            /\ retention' = Retention(Cohort(df))
    /\ UNCHANGED <<sheet_exists, sheet, columns, engVars, sumVars, appVars, df, overall, months, i,
                   prev_joiners_only, retained, retention_rate, results>>

\* ------------------------------------------------------------------------
\* retention-trend.py: 4. Churn Rate Trend
\* ------------------------------------------------------------------------
ObservedMonths(rows) == {rows[k].Month : k \in DOMAIN rows}

\* groupby("Month")["Attendee ID"].apply(set)
MonthGroup(rows, m) == {rows[k].id : k \in {j \in DOMAIN rows : rows[j].Month = m}}

\* (1 - active / prev) * 100 with NaN filled but without clip(lower=0)
ChurnRateUnclipped(active, prev) ==
    IF prev = 0 THEN <<0, 1>> ELSE <<(prev - active) * 100, prev>>

\* (1 - active / prev) * 100, NaN filled with 0, clipped below at 0
ChurnRate(active, prev) ==
    IF prev = 0 THEN <<0, 1>>
    ELSE IF active >= prev THEN <<0, 1>>
    ELSE <<(prev - active) * 100, prev>>

Overall(rows) ==
    LET ms == SortedSeq(ObservedMonths(rows))
        act(k) == Cardinality(MonthGroup(rows, ms[k]))
    IN  [k \in DOMAIN ms |->
            [Month |-> ms[k],
             ActiveParticipants |-> act(k),
             ChurnRate |-> IF k = 1 THEN <<0, 1>> ELSE ChurnRate(act(k), act(k - 1))]]

ChurnTrend ==
    /\ pc = "cohort"
    /\ overall' = Overall(df)
    /\ pc' = "churn"
    /\ UNCHANGED <<sheet_exists, sheet, columns, engVars, sumVars, appVars, df, cohort_pivot, retention, months, i,
                   prev_joiners_only, retained, retention_rate, results>>

\* ------------------------------------------------------------------------
\* retention-trend.py: 5. Rolling Retention of New Joiners
\* ------------------------------------------------------------------------
\* round(x, 2) of num / den, in hundredths
Round2(num, den) == (num * 200 + den) \div (2 * den)

EarlierNone(rows, ms, k) == {}

\* set().union(*month_groups.iloc[: i - 1]) if i > 1 else set(); the loop
\* index k of the code counts from 0, ms is indexed from 1.
Earlier(rows, ms, k) ==
    IF k > 1 THEN UNION {MonthGroup(rows, ms[j]) : j \in 1..(k - 1)} ELSE {}

RetentionRateUnguarded(nretained, prev_total) == <<nretained * 100, prev_total>>

\* (len(retained) / prev_total) * 100 if prev_total > 0 else 0.0
RetentionRate(nretained, prev_total) ==
    IF prev_total > 0 THEN <<nretained * 100, prev_total>> ELSE <<0, 1>>

RollingStart ==
    /\ pc = "churn"
    /\ months' = SortedSeq(ObservedMonths(df))
    /\ results' = <<>>
    /\ i' = 1
    /\ pc' = "rolling"
    /\ UNCHANGED <<sheet_exists, sheet, columns, engVars, sumVars, appVars, df, cohort_pivot, retention, overall,
                   prev_joiners_only, retained, retention_rate>>

RollingStep ==
    /\ pc = "rolling"
    /\ i < Len(months)
    /\ LET prev_all == MonthGroup(df, months[i])
           earlier == Earlier(df, months, i)
           joiners == prev_all \ earlier
           curr_set == MonthGroup(df, months[i + 1])
           kept == joiners \cap curr_set
           prev_total == Cardinality(joiners)
           rate == RetentionRate(Cardinality(kept), prev_total)
       IN  /\ prev_joiners_only' = joiners
           /\ retained' = kept
           /\ retention_rate' = rate
           /\ results' = Append(results,
                  [Month |-> months[i + 1],
                   RetentionPct |-> IF rate[2] = 0 THEN -1 ELSE Round2(rate[1], rate[2]),
                   DropoutPct |-> IF rate[2] = 0 THEN -1
                                  ELSE Round2(100 * rate[2] - rate[1], rate[2]),
                   PrevMonthNewJoiners |-> prev_total,
                   RetainedFromPrevJoiners |-> Cardinality(kept)])
    /\ i' = i + 1
    /\ UNCHANGED <<sheet_exists, sheet, columns, engVars, sumVars, appVars, pc, df, cohort_pivot, retention, overall, months>>

\* trend = pd.DataFrame(results); trend["Month"] raises KeyError when there
\* is no row.
RollingPlot ==
    /\ pc = "rolling"
    /\ i >= Len(months)
    /\ pc' = IF results = <<>> THEN "error" ELSE "done"
    /\ UNCHANGED <<sheet_exists, sheet, columns, engVars, sumVars, appVars, df, cohort_pivot, retention, overall, months, i,
                   prev_joiners_only, retained, retention_rate, results>>

\* The columns of sheet "Main" that the scripts read.
AllColumns == {"Attendee ID", "Activity ID", "Activity type", "Date"}

\* num_groups_var = tk.IntVar(value=20)
DefaultGroups == 20

\* group_var = tk.StringVar(): the empty text
NoLabel == <<>>

EngIdle ==
    /\ eng_pc = "start"
    /\ eng_df = <<>>
    /\ weekly = <<>>
    /\ pivot_df = <<>>
    /\ total_count = 0
    /\ num_groups_var = DefaultGroups
    /\ dropdown = <<>>
    /\ group_var = NoLabel
    /\ subset_ids = {}

SumIdle ==
    /\ sum_pc = "start"
    /\ sum_df = <<>>
    /\ df_first30 = <<>>
    /\ df_last30 = <<>>
    /\ summary_text = <<>>

TrendIdle ==
    /\ pc = "start"
    /\ df = <<>>
    /\ cohort_pivot = <<>>
    /\ retention = <<>>
    /\ overall = <<>>
    /\ months = <<>>
    /\ i = 0
    /\ prev_joiners_only = {}
    /\ retained = {}
    /\ retention_rate = <<0, 1>>
    /\ results = <<>>

\* __init__: self.geo_process = None and the button as constructed.
GeoIdle ==
    /\ run_geo_btn = [enabled |-> TRUE, text |-> "Run Ward Geospatial Mapping"]
    /\ geo_process = "None"
    /\ geo_exited = FALSE

AppIdle ==
    /\ GeoIdle
    /\ selfdf = <<>>
    /\ selected_sessions = 0
    /\ highlighted = 0
    /\ result_label = [retained |-> 0, active |-> 0, sessions |-> 0, pct |-> 0]
    /\ last_retained = {}
    /\ last_df_eligible = <<>>
    /\ files = <<>>
    /\ opened = {}

TrendInit ==
    /\ \/ sheet_exists = TRUE /\ sheet \in Sheets
       \/ sheet_exists = FALSE /\ sheet = <<>>
    /\ columns = AllColumns
    /\ TrendIdle
    /\ AppIdle
    /\ EngIdle
    /\ SumIdle

TrendNext ==
    \/ FileNotFound
    \/ LoadAndPrepare
    \/ CohortTable
    \/ ChurnTrend
    \/ RollingStart
    \/ RollingStep
    \/ RollingPlot

SpecTrend == TrendInit /\ [][TrendNext]_vars

\* ------------------------------------------------------------------------
\* pyqt5UI-chart-with-map.py: RetentionApp
\* ------------------------------------------------------------------------
NumButtons == 10
DefaultSessions == 4
EligibilityMonths == 2

\* The session buttons that are clicked: the first two of the buttons
\* 1..NumButtons.
Thresholds == {T \in 1..NumButtons : T <= 2}

LoadFrameDeduplicated(rows) == DropDuplicates(CoerceDates(rows))

\* __init__: read_excel, to_datetime(errors="coerce"); no row is dropped.
LoadFrame(rows) == CoerceDates(rows)

DatedRows(rows) == {k \in DOMAIN rows : rows[k].date # NaT}

\* self.df["Date"].max(); NaT when no row has a date
LatestDate(rows) ==
    IF DatedRows(rows) = {} THEN NaT ELSE Max({rows[k].date : k \in DatedRows(rows)})

\* date - pd.DateOffset(months=n): n calendar months back, the day of the
\* month kept, or the last day of the month reached when that is shorter.
MinusMonths(date, n) ==
    IF date = NaT THEN NaT
    ELSE LET m == ToPeriodM(date) - n
             d == date % 100
         IN  MkDate(m, IF d <= DaysIn(m) THEN d ELSE DaysIn(m))

\* groupby("Attendee ID")["Date"].min(), the NaT dates skipped
EligibleMin(rows, p) == Min({rows[k].date : k \in {j \in DatedRows(rows) : rows[j].id = p}})

EligibleIdsInclusive(rows) ==
    LET cutoff == MinusMonths(LatestDate(rows), EligibilityMonths)
    IN  {p \in {rows[k].id : k \in DatedRows(rows)} :
            cutoff # NaT /\ EligibleMin(rows, p) <= cutoff}

\* eligible[eligible < cutoff].index; a comparison with NaT is False
EligibleIds(rows) ==
    LET cutoff == MinusMonths(LatestDate(rows), EligibilityMonths)
    IN  {p \in {rows[k].id : k \in DatedRows(rows)} :
            cutoff # NaT /\ EligibleMin(rows, p) < cutoff}

DfEligible(rows) ==
    LET eligible_ids == EligibleIds(rows)
    IN  SelectSeq(rows, LAMBDA r : r.id \in eligible_ids)

\* groupby(["Attendee ID", "Month"]).size(): rows of the person in the month
MonthCount(rows, p, m) ==
    Cardinality({k \in DatedRows(rows) : rows[k].id = p /\ ToPeriodM(rows[k].date) = m})

MeetsAtMost(rows, p, m, T) == MonthCount(rows, p, m) >= 1 /\ MonthCount(rows, p, m) <= T

\* month_counts[(Month == m) & (count >= dynamic_sessions)]
Meets(rows, p, m, T) == MonthCount(rows, p, m) >= 1 /\ MonthCount(rows, p, m) >= T

PctFraction(nretained, nactive) ==
    IF nactive > 0 THEN Round2(nretained, nactive) ELSE 0

\* round(len(retained) / len(active_last_two) * 100, 2), in hundredths
PctRound2(nretained, nactive) ==
    IF nactive > 0 THEN Round2(nretained * 100, nactive) ELSE 0

CalcRetention(rows, T) ==
    LET el == DfEligible(rows)
        ids == {el[k].id : k \in DatedRows(el)}
        none == DatedRows(el) = {}
        latest == IF none THEN NaT ELSE Max({ToPeriodM(el[k].date) : k \in DatedRows(el)})
        prev == latest - 1
        active == IF none THEN {}
                  ELSE {p \in ids : MonthCount(el, p, prev) >= 1 \/ MonthCount(el, p, latest) >= 1}
        kept == IF none THEN {}
                ELSE {p \in ids : Meets(el, p, latest, T)} \cap {p \in ids : Meets(el, p, prev, T)}
    IN  [retained |-> kept,
         active_last_two |-> active,
         pct |-> PctRound2(Cardinality(kept), Cardinality(active)),
         df_eligible |-> el]

Label(r, T) ==
    [retained |-> Cardinality(r.retained), active |-> Cardinality(r.active_last_two),
     sessions |-> T, pct |-> r.pct]

ActivityOrder == <<"Boxing", "Football">>

\* ", ".join(sorted(set(x)))
JoinSorted(types) == SelectSeq(ActivityOrder, LAMBDA a : a \in types)

\* df_eligible[isin(retained)].groupby("Attendee ID")["Activity type"].apply(...)
ExportTable(el, kept) ==
    {[id |-> p, types |-> JoinSorted({el[k].act : k \in {j \in DOMAIN el : el[j].id = p}})] :
        p \in kept}

NoFile == [exists |-> FALSE, table |-> {}]

\* A report left in the folder by an earlier run over another spreadsheet
\* (the folder outlives the run: os.makedirs(folder, exist_ok=True)); here
\* retention_report_1.xlsx is such a file and the other reports do not exist.
PriorReport == [exists |-> TRUE, table |-> {[id |-> "Z", types |-> <<"Boxing">>]}]

WriteSkipIfExists(old, table) == IF old.exists THEN old ELSE [exists |-> TRUE, table |-> table]

\* grouped.to_excel(export_file, index=False)
ToExcel(old, table) == [exists |-> TRUE, table |-> table]

calc_retention_of_last(dynamic_sessions) ==
    \E r \in {CalcRetention(last_df_eligible, dynamic_sessions)} :
        /\ result_label' = Label(r, dynamic_sessions)
        /\ last_retained' = r.retained
        /\ last_df_eligible' = r.df_eligible

\* calc_retention(dynamic_sessions), as called by both handlers
calc_retention(dynamic_sessions) ==
    \E r \in {CalcRetention(selfdf, dynamic_sessions)} :
        /\ result_label' = Label(r, dynamic_sessions)
        /\ last_retained' = r.retained
        /\ last_df_eligible' = r.df_eligible

set_and_run(val) ==
    /\ highlighted' = val
    /\ selected_sessions' = val
    /\ calc_retention(val)
    /\ UNCHANGED <<sheet_exists, sheet, columns, engVars, sumVars, trendVars, selfdf, files, opened, geoVars>>

generate_excel(val) ==
    /\ calc_retention(val)
    /\ files' = [files EXCEPT ![val] = ToExcel(files[val], ExportTable(last_df_eligible', last_retained'))]
    /\ opened' = opened \cup {val}
    /\ UNCHANGED <<sheet_exists, sheet, columns, engVars, sumVars, trendVars, selfdf, selected_sessions, highlighted,
                   geoVars>>

ClickSession == \E val \in Thresholds : set_and_run(val)

ClickExcel == \E val \in Thresholds : generate_excel(val)

\* The state after RetentionApp.__init__, which ends with set_and_run(4).
AppInit ==
    /\ sheet_exists = TRUE
    /\ sheet \in Sheets
    /\ columns = AllColumns
    /\ TrendIdle
    /\ EngIdle
    /\ SumIdle
    /\ GeoIdle
    /\ selfdf = LoadFrame(sheet)
    /\ highlighted = DefaultSessions
    /\ selected_sessions = DefaultSessions
    /\ \E r \in {CalcRetention(LoadFrame(sheet), DefaultSessions)} :
        /\ result_label = Label(r, DefaultSessions)
        /\ last_retained = r.retained
        /\ last_df_eligible = r.df_eligible
    /\ files = [T \in Thresholds |-> IF T = 1 THEN PriorReport ELSE NoFile]
    /\ opened = {}

AppNext ==
    \/ ClickSession
    \/ ClickExcel

SpecApp == AppInit /\ [][AppNext]_vars

\* ------------------------------------------------------------------------
\* Spreadsheets of the two scripts that work on trailing windows of days
\* ------------------------------------------------------------------------
\* Up to n rows drawn from the row set R, one row order per multiset.
RECURSIVE SheetsOfRows(_, _)
\* ------------------------------------------------------------------------
\* The dashboard started on the snapshots of the threshold scenario: in
\* March attendee A has 3 sessions and attendee B 5, in April A has 2 and B
\* none; each of them may have one earlier session on 1 February.  The
\* sessions of a month fall on its 1st and its 30th in every split.
\* ------------------------------------------------------------------------
SessionRows(p, date, n) == [k \in 1..n |-> [id |-> p, date |-> date, act |-> ActivityOn(date)]]

\* n sessions of person p in month m, j of them on the 1st
MonthSessions(p, m, n, j) == SessionRows(p, MkDate(m, 1), j) \o SessionRows(p, MkDate(m, 30), n - j)

ThresholdScenarioSheets ==
    {SessionRows("A", MkDate(2, 1), ea) \o MonthSessions("A", 3, 3, ja) \o MonthSessions("A", 4, 2, jl)
        \o SessionRows("B", MkDate(2, 1), eb) \o MonthSessions("B", 3, 5, jb) :
        ea \in 0..1, ja \in 0..3, jl \in 0..2, eb \in 0..1, jb \in 0..5}

ScenarioAppInit ==
    /\ sheet_exists = TRUE
    /\ sheet \in ThresholdScenarioSheets
    /\ columns = AllColumns
    /\ TrendIdle
    /\ EngIdle
    /\ SumIdle
    /\ GeoIdle
    /\ selfdf = LoadFrame(sheet)
    /\ highlighted = DefaultSessions
    /\ selected_sessions = DefaultSessions
    /\ \E r \in {CalcRetention(LoadFrame(sheet), DefaultSessions)} :
        /\ result_label = Label(r, DefaultSessions)
        /\ last_retained = r.retained
        /\ last_df_eligible = r.df_eligible
    /\ files = [T \in Thresholds |-> IF T = 1 THEN PriorReport ELSE NoFile]
    /\ opened = {}

SpecAppScenario == ScenarioAppInit /\ [][AppNext]_vars

\* ------------------------------------------------------------------------
\* pyqt5UI-chart-with-map.py: the "Run Ward Geospatial Mapping" button.
\* geo_process is what QProcess.state() of self.geo_process returns
\* ("None" while there is no QProcess).  QProcess emits finished when a
\* process that had started exits or crashes; when the program cannot be
\* started it goes back to NotRunning and emits errorOccurred only, to
\* which no slot is connected.
\* ------------------------------------------------------------------------
\* The click on the button; a disabled button emits no clicked signal.
run_geospatial ==
    /\ run_geo_btn.enabled
    /\ run_geo_btn' = [enabled |-> FALSE, text |-> "Opening Ward Geospatial Mapping..."]
    /\ geo_process' = "Starting"
    /\ geo_exited' = FALSE
    /\ UNCHANGED <<sheet_exists, sheet, columns, engVars, sumVars, trendVars, selfdf, selected_sessions,
                   highlighted, result_label, last_retained, last_df_eligible, files, opened>>

enable_geo_button ==
    run_geo_btn' = [enabled |-> TRUE, text |-> "Run Ward Geospatial Mapping"]

\* The interpreter has been started.
GeoStarted ==
    /\ geo_process = "Starting"
    /\ geo_process' = "Running"
    /\ UNCHANGED <<sheet_exists, sheet, columns, engVars, sumVars, trendVars, selfdf, selected_sessions,
                   highlighted, result_label, last_retained, last_df_eligible, files, opened,
                   run_geo_btn, geo_exited>>

\* The interpreter could not be started (errorOccurred(FailedToStart)).
GeoFailedToStart ==
    /\ geo_process = "Starting"
    /\ geo_process' = "NotRunning"
    /\ UNCHANGED <<sheet_exists, sheet, columns, engVars, sumVars, trendVars, selfdf, selected_sessions,
                   highlighted, result_label, last_retained, last_df_eligible, files, opened,
                   run_geo_btn, geo_exited>>

\* ward-geospatial-mapping.py returns or raises: the child ends.
GeoChildExits ==
    /\ geo_process = "Running"
    /\ ~geo_exited
    /\ geo_exited' = TRUE
    /\ UNCHANGED <<sheet_exists, sheet, columns, engVars, sumVars, trendVars, selfdf, selected_sessions,
                   highlighted, result_label, last_retained, last_df_eligible, files, opened,
                   run_geo_btn, geo_process>>

\* The event loop sees that the child has ended: finished is emitted and
\* its slot enable_geo_button runs.
GeoFinished ==
    /\ geo_process = "Running"
    /\ geo_exited
    /\ geo_process' = "NotRunning"
    /\ geo_exited' = FALSE
    /\ enable_geo_button
    /\ UNCHANGED <<sheet_exists, sheet, columns, engVars, sumVars, trendVars, selfdf, selected_sessions,
                   highlighted, result_label, last_retained, last_df_eligible, files, opened>>

GeoNext ==
    \/ run_geospatial
    \/ GeoStarted
    \/ GeoFailedToStart
    \/ GeoChildExits
    \/ GeoFinished

\* The dashboard with its session buttons and the geospatial button.  The
\* operating system settles every start, and the event loop handles every
\* child that has ended; nothing makes the user click or the child end.
SpecGeo ==
    /\ ScenarioAppInit
    /\ [][AppNext \/ GeoNext]_vars
    /\ WF_vars(GeoStarted \/ GeoFailedToStart)
    /\ WF_vars(GeoFinished)

SheetsOfRows(R, n) ==
    IF n = 0 THEN {<<>>}
    ELSE UNION {{Append(s, r) : r \in {x \in R : Len(s) = 0 \/ RowKey(s[Len(s)]) <= RowKey(x)}} :
                s \in SheetsOfRows(R, n - 1)}

\* The sheets of at most n rows drawn from R.
SheetsUpTo(R, n) == UNION {SheetsOfRows(R, k) : k \in 0..n}

\* The sheet as read with all its columns, with one of them absent, and
\* with the column "Date" alone.
ColumnSets == {AllColumns} \cup {AllColumns \ {c} : c \in AllColumns} \cup {{"Date"}}

\* ------------------------------------------------------------------------
\* Engagement_Analysis.py: the weekly attendance heatmap
\* ------------------------------------------------------------------------
required == {"Attendee ID", "Activity ID", "Date"}
WindowDays == 60
MaxDaysShown == 5

\* Wednesday 26 and Friday 28 February, Saturday 26, Monday 28 and
\* Tuesday 29 April.
EngageDates == {MkDate(2, 26), MkDate(2, 28), MkDate(4, 26), MkDate(4, 28), MkDate(4, 29)}

\* A Date cell holds a date, a text that is no date, or nothing (read as
\* NaT).
EngageRows ==
    {[id |-> p, date |-> c, act |-> ActivityOn(c)] : p \in Persons, c \in EngageDates \cup {BadDate, NaT}}

\* df[df["Date"] >= max_date - timedelta(days=60)]; a comparison with NaT
\* is False.
LastTwoMonths(rows) ==
    LET max_date == LatestDate(rows)
        cutoff == IF max_date = NaT THEN NaT ELSE MinusDays(max_date, WindowDays)
    IN  SelectSeq(rows, LAMBDA r : r.date # NaT /\ cutoff # NaT /\ r.date >= cutoff)

AllDays(rows) == rows

\* df[df["Date"].dt.dayofweek < 5]
Workdays(rows) == SelectSeq(rows, LAMBDA r : DayOfWeek(r.date) < 5)

WeekOfSunday(date) == MinusDays(date, DayOfWeek(date) + 1)

\* df["Date"] - pd.to_timedelta(df["Date"].dt.dayofweek, unit="d")
WeekOf(date) == MinusDays(date, DayOfWeek(date))

WithWeek(rows) ==
    [k \in DOMAIN rows |->
        [id |-> rows[k].id, date |-> rows[k].date, act |-> rows[k].act, Week |-> WeekOf(rows[k].date)]]

\* groupby(["Attendee ID", "Week"])["Date"].nunique()
DaysAttended(rows, p, w) ==
    Cardinality({rows[k].date : k \in {j \in DOMAIN rows : rows[j].id = p /\ rows[j].Week = w}})

\* Series.clip(upper=...)
Clip(n, upper) == IF n > upper THEN upper ELSE n

Weekly(rows) ==
    [c \in {<<rows[k].id, rows[k].Week>> : k \in DOMAIN rows} |->
        Clip(DaysAttended(rows, c[1], c[2]), MaxDaysShown)]

\* pivot_table without fill_value=0: a cell only where the weekly frame has
\* a row
PivotSparse(w) == w

\* pivot_table(index="Attendee ID", columns="Week", fill_value=0): a cell
\* for every person and every week of the weekly frame.
Pivot(w) ==
    [c \in {x[1] : x \in DOMAIN w} \X {x[2] : x \in DOMAIN w} |->
        IF c \in DOMAIN w THEN w[c] ELSE 0]

\* read_excel raises FileNotFoundError.
EngFileNotFound ==
    /\ eng_pc = "start"
    /\ ~sheet_exists
    /\ eng_pc' = "error"
    /\ UNCHANGED <<sheet_exists, sheet, columns, trendVars, appVars, sumVars, eng_df, weekly, pivot_df, total_count, uiVars>>

\* raise ValueError(f"Excel must contain: {required}")
EngMissingColumns ==
    /\ eng_pc = "start"
    /\ sheet_exists
    /\ ~(required \subseteq columns)
    /\ eng_pc' = "missing_columns"
    /\ UNCHANGED <<sheet_exists, sheet, columns, trendVars, appVars, sumVars, eng_df, weekly, pivot_df, total_count, uiVars>>

\* pd.to_datetime(df["Date"]) without errors="coerce" raises on a cell that
\* is no date.
EngLoad ==
    /\ eng_pc = "start"
    /\ sheet_exists
    /\ required \subseteq columns
    /\ IF \E k \in DOMAIN sheet : sheet[k].date # NaT /\ ~IsDate(sheet[k].date)
       THEN eng_pc' = "error" /\ UNCHANGED eng_df
       ELSE eng_pc' = "loaded" /\ eng_df' = sheet
    /\ UNCHANGED <<sheet_exists, sheet, columns, trendVars, appVars, sumVars, weekly, pivot_df, total_count, uiVars>>

EngFilter ==
    /\ eng_pc = "loaded"
    /\ eng_df' = LastTwoMonths(eng_df)
    /\ eng_pc' = "filtered"
    /\ UNCHANGED <<sheet_exists, sheet, columns, trendVars, appVars, sumVars, weekly, pivot_df, total_count, uiVars>>

EngWeekly ==
    /\ eng_pc = "filtered"
    /\ eng_df' = WithWeek(Workdays(DropDuplicates(eng_df)))
    /\ weekly' = Weekly(eng_df')
    /\ eng_pc' = "weekly"
    /\ UNCHANGED <<sheet_exists, sheet, columns, trendVars, appVars, sumVars, pivot_df, total_count, uiVars>>

EngPivot ==
    /\ eng_pc = "weekly"
    /\ total_count' = Cardinality({c[1] : c \in DOMAIN weekly})
    /\ pivot_df' = Pivot(weekly)
    /\ eng_pc' = "pivot"
    /\ UNCHANGED <<sheet_exists, sheet, columns, trendVars, appVars, sumVars, eng_df, weekly, uiVars>>

EngInit ==
    /\ \/ sheet_exists = TRUE /\ sheet \in SheetsUpTo(EngageRows, MaxRows) /\ columns \in ColumnSets
       \/ sheet_exists = FALSE /\ sheet = <<>> /\ columns = AllColumns
    /\ TrendIdle
    /\ AppIdle
    /\ EngIdle
    /\ SumIdle

EngNext ==
    \/ EngFileNotFound
    \/ EngMissingColumns
    \/ EngLoad
    \/ EngFilter
    \/ EngWeekly
    \/ EngPivot

SpecEngage == EngInit /\ [][EngNext]_vars

\* ------------------------------------------------------------------------
\* Engagement_Analysis.py: 5.-8. the range dropdown of the heatmap
\* ------------------------------------------------------------------------
\* The largest number of participants of the windows enumerated.
MaxParticipants == 12

group_options == <<5, 10, 20, 30, 40, 50>>

\* f"{a}-{b}": the label is kept as its two numbers; both are written
\* without a sign, so the text has one "-" and split("-") gives them back.
RangeLabel(a, b) == <<a, b>>

\* map(int, selection.split("-"))
ParseLabel(label) == [start |-> label[1], end |-> label[2]]

\* group_size = max(total_count // num_groups, 1) and the ranges
\* (i * group_size + 1, min((i + 1) * group_size, total_count)) for i in
\* range(num_groups); the index k of the sequence is i + 1.
GroupLabels(count, num_groups) ==
    LET group_size == Max({count \div num_groups, 1})
    IN  [k \in 1..num_groups |->
            RangeLabel((k - 1) * group_size + 1, Min({k * group_size, count}))]

\* sorted_ids[start - 1:end], by rank: a slice keeps the positions that
\* exist.
SubsetRanks(label, count) ==
    {r \in 1..count : ParseLabel(label).start <= r /\ r <= ParseLabel(label).end}

\* plot_group: nothing is drawn for an empty selection.
plot_group(selection) ==
    subset_ids' = IF selection = NoLabel THEN {} ELSE SubsetRanks(selection, total_count)

update_groups ==
    /\ dropdown' = GroupLabels(total_count, num_groups_var')
    /\ group_var' = dropdown'[1]
    /\ plot_group(group_var')
    /\ UNCHANGED <<sheet_exists, sheet, columns, trendVars, appVars, sumVars,
                   eng_pc, eng_df, weekly, pivot_df, total_count>>

\* A radio button is clicked: Tk stores its value in num_groups_var and
\* calls update_groups.
ClickGroups ==
    /\ eng_pc = "mainloop"
    /\ \E k \in DOMAIN group_options : num_groups_var' = group_options[k]
    /\ update_groups

\* <<ComboboxSelected>>: a label of the dropdown is chosen and plot_group
\* runs.
SelectRange ==
    /\ eng_pc = "mainloop"
    /\ \E k \in DOMAIN dropdown : group_var' = dropdown[k]
    /\ plot_group(group_var')
    /\ UNCHANGED <<sheet_exists, sheet, columns, trendVars, appVars, sumVars,
                   eng_pc, eng_df, weekly, pivot_df, total_count, num_groups_var, dropdown>>

\* The script has reached root.mainloop() after its first update_groups(),
\* with total_count participants ranked by their total attendance.  The
\* participants are represented by their ranks 1..total_count; the cells
\* of the heatmap are not part of this specification.
GroupsInit ==
    /\ sheet_exists = TRUE
    /\ sheet = <<>>
    /\ columns = AllColumns
    /\ TrendIdle
    /\ AppIdle
    /\ SumIdle
    /\ eng_pc = "mainloop"
    /\ eng_df = <<>>
    /\ weekly = <<>>
    /\ pivot_df = <<>>
    /\ total_count \in 0..MaxParticipants
    /\ num_groups_var = DefaultGroups
    /\ dropdown = GroupLabels(total_count, DefaultGroups)
    /\ group_var = dropdown[1]
    /\ subset_ids = SubsetRanks(group_var, total_count)

GroupsNext ==
    \/ ClickGroups
    \/ SelectRange

SpecGroups == GroupsInit /\ [][GroupsNext]_vars

\* ------------------------------------------------------------------------
\* Engagement_Analysis.py and retention-trend.py run over the snapshots of
\* the attendance scenario: attendee A on 3 days of week W1 and on 2 days
\* of the week W2 after it, attendee B on the 5 days (Monday to Friday) of
\* W1 only.  W1 starts on Monday 24 March (W2 reaches into April), on
\* Monday 7 April (both weeks in April) or on Monday 28 April (W1 itself
\* reaches into May).
\* ------------------------------------------------------------------------
ScenarioMondays == {MkDate(3, 24), MkDate(4, 7), MkDate(4, 28)}

\* Monday to Friday of the week that starts on monday
WorkWeek(monday) == {MinusDays(monday, 0 - k) : k \in 0..4}

NextMonday(monday) == MinusDays(monday, 0 - 7)

\* One row of person p for every date of D, ascending.
PersonRows(p, D) ==
    [k \in 1..Cardinality(D) |->
        [id |-> p, date |-> SortedSeq(D)[k], act |-> ActivityOn(SortedSeq(D)[k])]]

AttendanceScenarioSheets ==
    UNION {{PersonRows("A", D1 \cup D2) \o PersonRows("B", WorkWeek(W)) :
                D1 \in {S \in SUBSET WorkWeek(W) : Cardinality(S) = 3},
                D2 \in {S \in SUBSET WorkWeek(NextMonday(W)) : Cardinality(S) = 2}} :
           W \in ScenarioMondays}

ScenarioInit ==
    /\ sheet_exists = TRUE
    /\ sheet \in AttendanceScenarioSheets
    /\ columns = AllColumns
    /\ TrendIdle
    /\ AppIdle
    /\ EngIdle
    /\ SumIdle

\* The two scripts are separate processes over the same spreadsheet.
ScenarioNext ==
    \/ EngLoad
    \/ EngFilter
    \/ EngWeekly
    \/ EngPivot
    \/ LoadAndPrepare
    \/ CohortTable
    \/ ChurnTrend
    \/ RollingStart
    \/ RollingStep
    \/ RollingPlot

SpecScenario == ScenarioInit /\ [][ScenarioNext]_vars

\* ------------------------------------------------------------------------
\* trend_summary.py: generate_trend_summary
\* ------------------------------------------------------------------------
SummaryWindowDays == 60
HalfDays == 30

\* 28 February, 1, 30 and 31 March, 1 and 30 April: seen from 30 April they
\* lie 61, 60, 31, 30, 29 and 0 days back.
SummaryDates ==
    {MkDate(2, 28), MkDate(3, 1), MkDate(3, 30), MkDate(3, 31), MkDate(4, 1), MkDate(4, 30)}

SummaryRows ==
    {[id |-> p, date |-> c, act |-> ActivityOn(c)] : p \in Persons, c \in SummaryDates \cup {BadDate}}

\* The values that the cleaning of the text columns takes for blank.
BlankValues == {"", "nan", "None", "Not provided", "Not Provided"}

\* to_datetime(errors="coerce"), dropna(subset=["Date"]), then for every
\* text column that is present the rows with a blank value are dropped;
\* "Activity type" is the only such column of the sheet.
CleanFrame(rows, cols) ==
    LET dated == DropNa(CoerceDates(rows))
    IN  IF "Activity type" \in cols
        THEN SelectSeq(dated, LAMBDA r : r.act \notin BlankValues)
        ELSE dated

\* latest_date - timedelta(days=60)
StartDate(latest_date) == MinusDays(latest_date, SummaryWindowDays)

\* start_date + timedelta(days=30)
MidDate(latest_date) == MinusDays(StartDate(latest_date), 0 - HalfDays)

DfWindow(rows) ==
    LET latest_date == LatestDate(rows)
    IN  SelectSeq(rows, LAMBDA r : r.date >= StartDate(latest_date) /\ r.date <= latest_date)

\* df_window[df_window["Date"] < mid_date]
DfFirst30(rows) ==
    SelectSeq(DfWindow(rows), LAMBDA r : r.date < MidDate(LatestDate(rows)))

\* df_window[df_window["Date"] >= mid_date]
DfLast30(rows) ==
    SelectSeq(DfWindow(rows), LAMBDA r : r.date >= MidDate(LatestDate(rows)))

\* groupby(col)["Attendee ID"].nunique() of the column "Activity type"
ActivityCount(rows, a) == Cardinality({rows[k].id : k \in {j \in DOMAIN rows : rows[j].act = a}})

\* compare_categories: (category, prev_val, last_val) of every category of
\* either half.
CompareCategories(df_first, df_last) ==
    {[category |-> a, prev_val |-> ActivityCount(df_first, a), last_val |-> ActivityCount(df_last, a)] :
        a \in {df_first[k].act : k \in DOMAIN df_first} \cup {df_last[k].act : k \in DOMAIN df_last}}

\* groupby(["Date", "Attendee ID"]).size(): the unique attendances, counted
\* by day of the week (0 for Monday) out of their total.
WeekdayCounts(rows) ==
    LET unique_attendance == {<<rows[k].date, rows[k].id>> : k \in DOMAIN rows}
    IN  [d \in 0..6 |->
            <<Cardinality({u \in unique_attendance : DayOfWeek(u[1]) = d}), Cardinality(unique_attendance)>>]

\* The members whose first session is no later than n months before the
\* latest date, and among them those whose last session is within n * 30
\* days of the first: round(drop / total * 100, 2), 0 when nobody is valid.
DropOffPct(rows, n) ==
    LET cutoff == MinusMonths(LatestDate(rows), n)
        ids == {rows[k].id : k \in DOMAIN rows}
        valid == {p \in ids : FirstDate(rows, p) <= cutoff}
        drop == {p \in valid : DayNumber(LastDate(rows, p)) - DayNumber(FirstDate(rows, p)) <= n * 30}
    IN  IF valid # {} THEN Round2(Cardinality(drop) * 100, Cardinality(valid)) ELSE 0

SummaryText(rows, df_first, df_last, cols) ==
    [period |-> <<StartDate(LatestDate(rows)), LatestDate(rows)>>,
     activity |-> IF "Activity type" \in cols THEN CompareCategories(df_first, df_last) ELSE {},
     weekday |-> IF {"Date", "Attendee ID"} \subseteq cols THEN WeekdayCounts(rows) ELSE <<>>,
     dropoff |-> IF {"Date", "Attendee ID"} \subseteq cols
                 THEN <<DropOffPct(rows, 3), DropOffPct(rows, 6)>> ELSE <<>>]

\* return "File not found"
SumFileNotFound ==
    /\ sum_pc = "start"
    /\ ~sheet_exists
    /\ sum_pc' = "not_found"
    /\ UNCHANGED <<sheet_exists, sheet, columns, trendVars, appVars, engVars,
                   sum_df, df_first30, df_last30, summary_text>>

\* df["Date"] raises KeyError when the sheet has no column "Date".
SumLoad ==
    /\ sum_pc = "start"
    /\ sheet_exists
    /\ IF "Date" \in columns
       THEN sum_pc' = "loaded" /\ sum_df' = CleanFrame(sheet, columns)
       ELSE sum_pc' = "error" /\ UNCHANGED sum_df
    /\ UNCHANGED <<sheet_exists, sheet, columns, trendVars, appVars, engVars,
                   df_first30, df_last30, summary_text>>

\* df["Date"].max() of a frame without rows is NaT, which has no method
\* normalize: AttributeError.
SumWindow ==
    /\ sum_pc = "loaded"
    /\ IF sum_df = <<>>
       THEN sum_pc' = "error" /\ UNCHANGED <<df_first30, df_last30>>
       ELSE /\ sum_pc' = "window"
            /\ df_first30' = DfFirst30(sum_df)
            /\ df_last30' = DfLast30(sum_df)
    /\ UNCHANGED <<sheet_exists, sheet, columns, trendVars, appVars, engVars, sum_df, summary_text>>

\* The sections of the text; compare_categories raises KeyError when the
\* sheet has no column "Attendee ID".
SumReport ==
    /\ sum_pc = "window"
    /\ IF "Activity type" \in columns /\ "Attendee ID" \notin columns
       THEN sum_pc' = "error" /\ UNCHANGED summary_text
       ELSE /\ sum_pc' = "returned"
            /\ summary_text' = SummaryText(sum_df, df_first30, df_last30, columns)
    /\ UNCHANGED <<sheet_exists, sheet, columns, trendVars, appVars, engVars,
                   sum_df, df_first30, df_last30>>

SumInit ==
    /\ \/ sheet_exists = TRUE /\ sheet \in SheetsUpTo(SummaryRows, MaxRows) /\ columns \in ColumnSets
       \/ sheet_exists = FALSE /\ sheet = <<>> /\ columns = AllColumns
    /\ TrendIdle
    /\ AppIdle
    /\ EngIdle
    /\ SumIdle

SumNext ==
    \/ SumFileNotFound
    \/ SumLoad
    \/ SumWindow
    \/ SumReport

SpecSummary == SumInit /\ [][SumNext]_vars

\* ========================================================================
\* Properties
\* ========================================================================
\* Reference notions, stated over the events of the spreadsheet.
RawEvents == {k \in DOMAIN sheet : sheet[k].date \in Dates}

EventsOf(p, d) == {k \in RawEvents : sheet[k].id = p /\ sheet[k].date = d}

RecordsOf(p, d) == {k \in DOMAIN df : df[k].id = p /\ df[k].date = d}

ActiveIn(m) == {sheet[k].id : k \in {j \in RawEvents : ToPeriodM(sheet[j].date) = m}}

Attendees == UNION {ActiveIn(m) : m \in Months}

JoinWindow(p) == Min({m \in Months : p \in ActiveIn(m)})

Joiners(J) == {p \in Attendees : JoinWindow(p) = J}

Prepared == pc \notin {"start", "returned"}

CohortBuilt == pc \notin {"start", "returned", "prepared"}

\* An iteration of the rolling loop has run; the last one was the
\* transition (months[i - 1], months[i]).
IterationDone == pc \in {"rolling", "done", "error"} /\ i >= 2

\* C1: after drop_duplicates the frame holds exactly one record for every
\* (person, date) that occurs in one or more raw events, and none for any
\* other pair.
C1_OneRecordPerPersonDay ==
    Prepared =>
        /\ \A k \in DOMAIN df : df[k].id \in Persons /\ df[k].date \in Dates
        /\ \A p \in Persons, d \in Dates :
              Cardinality(RecordsOf(p, d)) = IF EventsOf(p, d) # {} THEN 1 ELSE 0

C1_Witness ==
    /\ pc = "prepared"
    /\ \E p \in Persons, d \in Dates :
          Cardinality(EventsOf(p, d)) >= 3 /\ Cardinality(RecordsOf(p, d)) = 1
    /\ \E p \in Persons, d \in Dates : Cardinality(EventsOf(p, d)) = 1

\* C2: for every join month J the cell (J, offset 0) of the cohort table is
\* the number of distinct persons whose join month is J (and a month in
\* which nobody joined has no row).
C2_OffsetZeroIsCohortSize ==
    CohortBuilt =>
        /\ \A c \in DOMAIN cohort_pivot : Joiners(c[1]) # {}
        /\ \A J \in Months :
              IF Joiners(J) = {}
              THEN <<J, 0>> \notin DOMAIN cohort_pivot
              ELSE /\ <<J, 0>> \in DOMAIN cohort_pivot
                   /\ cohort_pivot[<<J, 0>>] = Cardinality(Joiners(J))

C2_Witness ==
    /\ pc = "cohort"
    /\ \E J \in Months :
          /\ <<J, 0>> \in DOMAIN cohort_pivot
          /\ cohort_pivot[<<J, 0>>] = 2
          /\ RowCount(df, J, 0) >= 3
          /\ \E o \in 1..2 : <<J, o>> \in DOMAIN cohort_pivot

\* C3: every cell of the cohort table has a retention rate between 0 and
\* 100: no cell count exceeds the offset-0 count of its cohort.
C3_RetentionRateBounds ==
    /\ \A c \in DOMAIN retention :
          /\ retention[c][2] > 0
          /\ 0 <= retention[c][1]
          /\ retention[c][1] <= 100 * retention[c][2]
    /\ CohortBuilt =>
          /\ DOMAIN retention = DOMAIN cohort_pivot
          /\ \A c \in DOMAIN cohort_pivot :
                /\ <<c[1], 0>> \in DOMAIN cohort_pivot
                /\ cohort_pivot[c] <= cohort_pivot[<<c[1], 0>>]
                /\ retention[c][1] = 100 * cohort_pivot[c]
                /\ retention[c][2] = cohort_pivot[<<c[1], 0>>]

C3_Witness ==
    /\ pc = "cohort"
    /\ \E c \in DOMAIN retention :
          c[2] >= 1 /\ 0 < retention[c][1] /\ retention[c][1] < 100 * retention[c][2]
    /\ \E c \in DOMAIN retention :
          c[2] >= 1 /\ retention[c][1] = 100 * retention[c][2]

\* C4: in every transition (prior, current) of the rolling retention,
\* prev_joiners_only is the set of persons active in prior minus those
\* active in any window before prior, that is the persons whose first
\* record falls in prior, and retained is that set intersected with the
\* persons active in current.
C4_PriorJoinersAndRetained ==
    IterationDone =>
        /\ prev_joiners_only =
              ActiveIn(months[i - 1]) \
                  UNION {ActiveIn(m) : m \in {x \in Months : x < months[i - 1]}}
        /\ prev_joiners_only = Joiners(months[i - 1])
        /\ retained = Joiners(months[i - 1]) \cap ActiveIn(months[i])

C4_Witness ==
    /\ pc = "rolling"
    /\ i = 3
    /\ prev_joiners_only # {}
    /\ prev_joiners_only # ActiveIn(months[2])
    /\ retained # {}

\* C5: when prev_joiners_only is empty in a transition, the retention rate
\* of that transition is exactly 0, a defined number.
C5_EmptyJoinersGiveZero ==
    (IterationDone /\ prev_joiners_only = {}) =>
        /\ retention_rate[2] > 0
        /\ retention_rate[1] = 0
        /\ results[Len(results)].RetentionPct = 0
        /\ results[Len(results)].PrevMonthNewJoiners = 0

C5_Witness ==
    /\ IterationDone
    /\ prev_joiners_only = {}
    /\ ActiveIn(months[i - 1]) # {}

\* Reference notions of the threshold retention.  The persons considered
\* are those of the eligible frame; prev and latest are the last two
\* monthly windows of their records.
Sessions(p, m) ==
    Cardinality({k \in RawEvents : sheet[k].id = p /\ ToPeriodM(sheet[k].date) = m})

AttendanceDays(p, m) ==
    Cardinality({sheet[k].date : k \in {j \in RawEvents : sheet[j].id = p /\ ToPeriodM(sheet[j].date) = m}})

Considered == {last_df_eligible[k].id : k \in DOMAIN last_df_eligible}

LatestWindow == Max({m \in Months : ActiveIn(m) \cap Considered # {}})

ActiveLastTwo ==
    IF Considered = {} THEN {}
    ELSE {p \in Considered : Sessions(p, LatestWindow - 1) >= 1 \/ Sessions(p, LatestWindow) >= 1}

RetainedAt(T) ==
    IF Considered = {} THEN {}
    ELSE {p \in Considered : Sessions(p, LatestWindow - 1) >= T /\ Sessions(p, LatestWindow) >= T}

RetainedByDays(T) ==
    IF Considered = {} THEN {}
    ELSE {p \in Considered :
            AttendanceDays(p, LatestWindow - 1) >= T /\ AttendanceDays(p, LatestWindow) >= T}

FirstEventDate(p) == Min({sheet[k].date : k \in {j \in RawEvents : sheet[j].id = p}})

LatestEventDate == Max({sheet[k].date : k \in RawEvents})

\* d is earlier than the day two calendar months before latest (the same
\* day of the month, or the last day of that month when it is shorter).
PredatesCutoff(d, latest) ==
    LET back == ToPeriodM(latest) - ToPeriodM(d)
    IN  \/ back > 2
        \/ /\ back = 2
           /\ d % 100 < latest % 100
           /\ d % 100 < DaysIn(ToPeriodM(d))

AppRunning == selected_sessions # 0

\* C6: for thresholds T1 <= T2 on the same snapshot the retained set of
\* calc_retention(T2) is a subset of that of calc_retention(T1); here the
\* set of the last call, last_retained, against every other threshold.
C6_ThresholdMonotone ==
    AppRunning =>
        \A T \in Thresholds \cup {DefaultSessions} :
            /\ T <= result_label.sessions => last_retained \subseteq CalcRetention(selfdf, T).retained
            /\ T >= result_label.sessions => CalcRetention(selfdf, T).retained \subseteq last_retained

C6_Witness ==
    /\ result_label.sessions = 1
    /\ Cardinality(last_retained) = 1
    /\ Cardinality(CalcRetention(selfdf, 2).retained) = 0
    /\ result_label.active = 2

\* C7: calc_retention reports |retained| / |active_last_two| x 100 (rounded
\* to two decimals), and 0 when active_last_two is empty; active_last_two
\* is the eligible persons with a record in prev or latest, retained those
\* with a count >= T in both; retained is a subset of active_last_two and
\* the percentage lies in [0, 100].
C7_RetentionPct ==
    AppRunning =>
        LET T == result_label.sessions
            a == Cardinality(ActiveLastTwo)
            r == Cardinality(RetainedAt(T))
            diff == result_label.pct * a - 10000 * r
        IN  /\ last_retained = RetainedAt(T)
            /\ CalcRetention(selfdf, T).active_last_two = ActiveLastTwo
            /\ result_label.retained = r
            /\ result_label.active = a
            /\ last_retained \subseteq ActiveLastTwo
            /\ a = 0 => result_label.pct = 0
            /\ a > 0 => 2 * diff <= a /\ 2 * diff >= 0 - a
            /\ 0 <= result_label.pct /\ result_label.pct <= 10000

C7_Witness ==
    /\ result_label.active = 2
    /\ result_label.retained = 1
    /\ result_label.pct = 5000

\* C8 as stated: only persons whose first record predates the window two
\* calendar months before the latest window are considered, so nobody who
\* joined in that window or later is in active_last_two or retained.
C8_JoinedBeforeWindow ==
    AppRunning =>
        \A p \in Considered \cup last_retained \cup CalcRetention(selfdf, result_label.sessions).active_last_two :
            JoinWindow(p) < ToPeriodM(LatestEventDate) - EligibilityMonths

\* C8 as amended: the persons considered are exactly those whose first
\* record date is earlier than the latest record date of the whole
\* snapshot minus 2 calendar months; nobody else is in active_last_two or
\* retained, for any threshold.
C8_JoinedBeforeCutoffDate ==
    AppRunning =>
        /\ Considered = {p \in Attendees : PredatesCutoff(FirstEventDate(p), LatestEventDate)}
        /\ \A T \in Thresholds \cup {DefaultSessions} :
              /\ CalcRetention(selfdf, T).active_last_two \subseteq Considered
              /\ CalcRetention(selfdf, T).retained \subseteq Considered
        /\ last_retained \subseteq Considered

C8_Witness ==
    /\ AppRunning
    /\ \E p \in last_retained : JoinWindow(p) = ToPeriodM(LatestEventDate) - EligibilityMonths
    /\ \E q \in Attendees \ Considered : Sessions(q, LatestWindow) >= 1

\* C9 as stated: the monthly count compared against T is the number of
\* distinct attendance dates of the person in the month.
C9_CountsAttendanceDays ==
    AppRunning => last_retained = RetainedByDays(result_label.sessions)

\* C9 as amended: the snapshot is not deduplicated; the monthly count
\* compared against T is the number of rows (sessions) of the person in the
\* month, several rows of one date counting one each.
C9_CountsSessions ==
    AppRunning =>
        /\ Len(selfdf) = Len(sheet)
        /\ \A p \in Persons :
              p \in last_retained <=>
                  /\ p \in Considered
                  /\ Sessions(p, LatestWindow - 1) >= result_label.sessions
                  /\ Sessions(p, LatestWindow) >= result_label.sessions

C9_Witness ==
    /\ result_label.sessions = 2
    /\ \E p \in last_retained :
          AttendanceDays(p, LatestWindow) = 1 /\ AttendanceDays(p, LatestWindow - 1) = 1

\* The export table of threshold T, from the events of the spreadsheet.
ActivityTypes(p) == {sheet[k].act : k \in {j \in DOMAIN sheet : sheet[j].id = p}}

ReportOf(T) ==
    [exists |-> TRUE,
     table |-> {[id |-> p,
                 types |-> IF ActivityTypes(p) = {"Boxing"} THEN <<"Boxing">>
                           ELSE IF ActivityTypes(p) = {"Football"} THEN <<"Football">>
                           ELSE <<"Boxing", "Football">>] : p \in RetainedAt(T)}]

\* C10 as stated: generate_excel(T) leaves an existing retention_report_T
\* as it is.
C10_ExistingReportKept ==
    [][\A T \in Thresholds : files[T].exists => files'[T] = files[T]]_vars

\* C10 as amended: generate_excel(T) always writes retention_report_T anew,
\* whether or not it exists: after any sequence of clicks every report
\* exported in this run holds the export table of the snapshot for T (so a
\* repeated click rewrites the same content), and the other files are as
\* they were found.
C10_ReportOverwritten ==
    AppRunning =>
        \A T \in Thresholds :
            files[T] = IF T \in opened THEN ReportOf(T)
                       ELSE IF T = 1 THEN PriorReport ELSE NoFile

C10_Witness ==
    /\ opened = Thresholds
    /\ files[1].table # {}
    /\ files[1] # files[2]

\* Reference notions of the weekly engagement view, stated over the events
\* of the spreadsheet.
DatedEvents == {k \in DOMAIN sheet : IsDate(sheet[k].date)}

EventDates(p) == {sheet[k].date : k \in {j \in DatedEvents : sheet[j].id = p}}

IsWeekend(d) == DayOfWeek(d) \in {5, 6}

\* d lies in Monday to Friday of the week that starts on the day w.
InWorkWeek(d, w) == DayNumber(d) - DayNumber(w) \in 0..4

LatestEvent == Max({sheet[k].date : k \in DatedEvents})

\* The dates of p that are no more than 60 days before the latest date of
\* the snapshot.
WindowDates(p) == {d \in EventDates(p) : DayNumber(LatestEvent) - DayNumber(d) <= WindowDays}

Bucketed == eng_pc \in {"weekly", "pivot"}

\* C11: no weekly bucket contains a record dated on a Saturday or Sunday:
\* every record left when the buckets are formed is dated Monday to Friday
\* and lies in the work week of its bucket, every cell counts dates of
\* Monday to Friday only, and a weekend date of the spreadsheet is the date
\* of no record.
C11_NoWeekendInBucket ==
    Bucketed =>
        /\ \A k \in DOMAIN eng_df :
              /\ ~IsWeekend(eng_df[k].date)
              /\ InWorkWeek(eng_df[k].date, eng_df[k].Week)
        /\ \A c \in DOMAIN weekly :
              /\ weekly[c] >= 1
              /\ weekly[c] <= Cardinality({d \in EventDates(c[1]) : ~IsWeekend(d) /\ InWorkWeek(d, c[2])})
        /\ \A j \in DatedEvents :
              IsWeekend(sheet[j].date) => \A k \in DOMAIN eng_df : eng_df[k].date # sheet[j].date

C11_Witness ==
    /\ eng_pc = "weekly"
    /\ \E j \in DatedEvents :
          /\ IsWeekend(sheet[j].date)
          /\ sheet[j].date = LatestEvent
          /\ \E c \in DOMAIN weekly : c[1] = sheet[j].id
          /\ \A c \in DOMAIN weekly : ~InWorkWeek(MinusDays(sheet[j].date, 5), c[2])

\* C12 as stated: every cell (person, week) of the matrix is an integer in
\* 0..5, the week is a Monday, and the cell is the number of the person's
\* distinct attendance dates in Monday to Friday of that week, at most 5,
\* and 0 when there is none.
C12_CellCountsWeekDates ==
    eng_pc = "pivot" =>
        \A c \in DOMAIN pivot_df :
            /\ pivot_df[c] \in 0..5
            /\ DayOfWeek(c[2]) = 0
            /\ pivot_df[c] = Clip(Cardinality({d \in EventDates(c[1]) : InWorkWeek(d, c[2])}), 5)

\* C12 as amended: the matrix is built from the trailing window only (the
\* dates no more than 60 days before the latest date of the snapshot): it
\* has a row for every person with a Monday-to-Friday date in the window
\* and a column for every week with one, every week is a Monday, and the
\* cell is the number of the person's distinct dates of the window in
\* Monday to Friday of that week, an integer in 0..5.
C12_CellCountsWindowDates ==
    eng_pc = "pivot" =>
        LET shown(p) == {d \in WindowDates(p) : ~IsWeekend(d)}
        IN  /\ {c[1] : c \in DOMAIN pivot_df} = {p \in Persons : shown(p) # {}}
            /\ {c[2] : c \in DOMAIN pivot_df} =
                  {MinusDays(d, DayOfWeek(d)) : d \in UNION {shown(p) : p \in Persons}}
            /\ \A c \in DOMAIN pivot_df :
                  /\ pivot_df[c] \in 0..5
                  /\ DayOfWeek(c[2]) = 0
                  /\ pivot_df[c] = Clip(Cardinality({d \in WindowDates(c[1]) : InWorkWeek(d, c[2])}), 5)

C12_Witness ==
    /\ eng_pc = "pivot"
    /\ \E c \in DOMAIN pivot_df : pivot_df[c] = 2
    /\ \E c \in DOMAIN pivot_df : pivot_df[c] = 0
    /\ \E c \in DOMAIN pivot_df :
          /\ pivot_df[c] = 1
          /\ Cardinality({d \in EventDates(c[1]) : InWorkWeek(d, c[2])}) = 2

\* The monthly windows that hold a record, ascending.
ObservedWindows == {m \in Months : ActiveIn(m) # {}}

WindowsInOrder == SortedSeq(ObservedWindows)

\* The rolling loop has ended (the list of rows is complete).
LoopEnded == pc \in {"done", "error"} /\ ObservedWindows # {}

\* C13: every person with a record is in exactly one cohort: all records of
\* the person carry the same JoinMonth, it is the earliest monthly window
\* that holds a record of the person, and every MonthOffset is the distance
\* of the record's month from it, which is >= 0.
C13_OneCohortPerPerson ==
    Prepared =>
        /\ \A p \in Attendees : \E k \in DOMAIN df : df[k].id = p
        /\ \A k \in DOMAIN df :
              /\ df[k].id \in Attendees
              /\ df[k].JoinMonth = JoinWindow(df[k].id)
              /\ df[k].MonthOffset = df[k].Month - JoinWindow(df[k].id)
              /\ df[k].MonthOffset >= 0
        /\ \A k1, k2 \in DOMAIN df : df[k1].id = df[k2].id => df[k1].JoinMonth = df[k2].JoinMonth

C13_Witness ==
    /\ pc = "prepared"
    /\ \E k1, k2 \in DOMAIN df :
          /\ df[k1].id # df[k2].id
          /\ df[k1].JoinMonth < df[k2].JoinMonth
          /\ df[k1].MonthOffset = 2
          /\ df[k1].Month > df[k2].JoinMonth

\* C14: with k >= 1 monthly windows the rolling retention has k - 1 rows,
\* one per transition; row j is labelled with the current window of the
\* j-th transition, that is window j + 1, and no row is labelled with the
\* first window.
C14_OneRowPerTransition ==
    /\ LoopEnded =>
          /\ Len(results) = Cardinality(ObservedWindows) - 1
          /\ \A j \in DOMAIN results : results[j].Month = WindowsInOrder[j + 1]
          /\ \A j \in DOMAIN results : results[j].Month # Min(ObservedWindows)
    /\ pc = "rolling" =>
          /\ Len(results) = i - 1
          /\ \A j \in DOMAIN results : results[j].Month = WindowsInOrder[j + 1]

C14_Witness ==
    /\ pc = "done"
    /\ Len(results) = 2
    /\ results[1].Month # results[2].Month

\* C15 as stated: every transition (prior, current) of the rolling
\* retention is a pair of consecutive calendar months, current = prior + 1,
\* also when a month inside the observed range holds no record.
C15_ConsecutiveMonths ==
    IterationDone => months[i] = months[i - 1] + 1

\* C17 as stated: on a snapshot with no record, or with records in one
\* monthly window only, run_retention_trend completes and never reaches an
\* error state.
C17_GracefulOnInsufficientData ==
    Cardinality(ObservedWindows) <= 1 => pc # "error"

\* C20: deduplicating the deduplicated frame changes nothing: the prepared
\* frame is a fixed point of drop_duplicates, and so is the result of
\* drop_duplicates on the rows of the spreadsheet as they are.
C20_DedupIdempotent ==
    /\ Prepared => DropDuplicates(df) = df
    /\ Prepared => DropDuplicates(DropDuplicates(sheet)) = DropDuplicates(sheet)

C20_Witness ==
    /\ pc = "prepared"
    /\ Len(df) >= 2
    /\ \E p \in Persons, d \in Dates : Cardinality(EventsOf(p, d)) >= 3
    /\ \E p \in Persons, d \in Dates : Cardinality(EventsOf(p, d)) = 2

\* C19: the threshold retention is a function of (snapshot, T) alone:
\* after any sequence of threshold and export clicks self.df is still the
\* frame as loaded, so that any call calc_retention(T) computes from the
\* loaded snapshot, and the label, last_retained and last_df_eligible are
\* those that a first call on the loaded snapshot gives for the threshold
\* of the last call.
C19_DeterministicRecompute ==
    AppRunning =>
        LET first == CalcRetention(LoadFrame(sheet), result_label.sessions)
        IN  /\ selfdf = LoadFrame(sheet)
            /\ result_label = Label(first, result_label.sessions)
            /\ last_retained = first.retained
            /\ last_df_eligible = first.df_eligible

\* A threshold was clicked and exported, another was clicked after it, and
\* the first is in force again, with somebody retained.
C19_Witness ==
    /\ opened = Thresholds
    /\ result_label.sessions = 1
    /\ highlighted = 2
    /\ last_retained # {}
    /\ CalcRetention(selfdf, 2).retained # last_retained
    /\ Len(last_df_eligible) < Len(selfdf)

\* Reference notions of the 30/30 split: a record lies Bucket days-of-30
\* back from the latest date of the snapshot.
Bucket(d) == (DayNumber(LatestEvent) - DayNumber(d)) \div HalfDays

HalfOf(b) == SelectSeq(sheet, LAMBDA r : IsDate(r.date) /\ Bucket(r.date) = b)

SplitDone == sum_pc \in {"window", "returned"}

\* C16 as stated: the 'last 30 days' half holds exactly the records of
\* bucket floor((max_date - date) / 30) = 0, that is 0 <= max_date - date <
\* 30 days, and the 'first 30 days' half exactly those of bucket 1, that is
\* 30 <= max_date - date < 60 days.
C16_HalvesByFloor ==
    SplitDone =>
        /\ df_last30 = HalfOf(0)
        /\ df_first30 = HalfOf(1)

\* C18 as stated, for generate_trend_summary: no text is returned for a
\* sheet that lacks the attendee column, the date column, or the activity
\* column under both of its names.
C18_MissingColumnsFail ==
    sum_pc = "returned" =>
        /\ "Attendee ID" \in columns
        /\ "Date" \in columns
        /\ ("Activity ID" \in columns \/ "Activity type" \in columns)

\* ------------------------------------------------------------------------
\* C26 as stated: after any sequence of threshold clicks and export
\* clicks, the result shown in the label and kept in last_retained is the
\* one computed with the threshold held in selected_sessions, which is the
\* threshold of the highlighted button.
C26_ShownForSelectedThreshold ==
    AppRunning =>
        /\ highlighted = selected_sessions
        /\ result_label.sessions = selected_sessions
        /\ \E r \in {CalcRetention(selfdf, selected_sessions)} :
            /\ result_label = Label(r, selected_sessions)
            /\ last_retained = r.retained

\* ------------------------------------------------------------------------
\* The churn series has been computed (an "error" with observed windows is
\* the one raised after the rolling loop).
ChurnComputed == pc \in {"churn", "rolling", "done"} \/ (pc = "error" /\ ObservedWindows # {})

ActiveCount(k) == Cardinality(ActiveIn(WindowsInOrder[k]))

\* C23: the month-over-month churn series has one value per observed month,
\* each within 0..100: 0 for the first observed month, 0 for a month whose
\* distinct-active count is at least that of the previous observed month,
\* and (1 - active_m / active_prev) * 100 otherwise, so that it is positive
\* exactly when the active count strictly decreased.
C23_ChurnSeries ==
    ChurnComputed =>
        /\ Len(overall) = Len(WindowsInOrder)
        /\ \A k \in DOMAIN overall :
            LET c == overall[k].ChurnRate
            IN  /\ overall[k].Month = WindowsInOrder[k]
                /\ overall[k].ActiveParticipants = ActiveCount(k)
                /\ c[2] > 0
                /\ c[1] >= 0
                /\ c[1] <= 100 * c[2]
                /\ (k = 1 => c[1] = 0)
                /\ (k > 1 /\ ActiveCount(k) >= ActiveCount(k - 1) => c[1] = 0)
                /\ (k > 1 /\ ActiveCount(k) < ActiveCount(k - 1) =>
                        c[1] * ActiveCount(k - 1) =
                            (ActiveCount(k - 1) - ActiveCount(k)) * 100 * c[2])
                /\ (c[1] > 0 <=> (k > 1 /\ ActiveCount(k) < ActiveCount(k - 1)))

\* Three observed months whose active count rises and then falls: the
\* series holds a clipped 0 and a positive churn.
C23_Witness ==
    /\ pc = "done"
    /\ Len(overall) = 3
    /\ ActiveCount(2) > ActiveCount(1)
    /\ overall[2].ChurnRate[1] = 0
    /\ ActiveCount(3) < ActiveCount(2)
    /\ overall[3].ChurnRate = <<100, 2>>

\* ------------------------------------------------------------------------
\* The cell of the cohort pivot, an absent (NaN) cell taken as 0.
CohortCell(J, o) == IF <<J, o>> \in DOMAIN cohort_pivot THEN cohort_pivot[<<J, o>>] ELSE 0

\* C24: the rolling loop and the cohort table agree: after an iteration
\* over (prior, current) where current is the calendar month directly
\* after prior and prior has new joiners, the unrounded retention_rate
\* equals cell (prior, 1) / cell (prior, 0) * 100 of the cohort pivot, an
\* absent offset-1 cell taken as 0, and PrevMonthNewJoiners equals cell
\* (prior, 0).
C24_RollingAgreesWithCohort ==
    (IterationDone /\ months[i] = months[i - 1] + 1 /\ prev_joiners_only # {}) =>
        /\ <<months[i - 1], 0>> \in DOMAIN cohort_pivot
        /\ retention_rate[1] * CohortCell(months[i - 1], 0) =
               CohortCell(months[i - 1], 1) * 100 * retention_rate[2]
        /\ results[Len(results)].PrevMonthNewJoiners = CohortCell(months[i - 1], 0)
        /\ results[Len(results)].RetainedFromPrevJoiners = CohortCell(months[i - 1], 1)
        /\ results[Len(results)].RetentionPct =
               Round2(CohortCell(months[i - 1], 1) * 100, CohortCell(months[i - 1], 0))

\* The second iteration, over two consecutive months, where the prior
\* month has one new joiner beside a participant seen before, and the
\* joiner is absent from the current month: the offset-1 cell is absent.
C24_Witness ==
    /\ IterationDone
    /\ i = 3
    /\ months = <<2, 3, 4>>
    /\ prev_joiners_only = {"B"}
    /\ MonthGroup(df, 3) = {"A", "B"}
    /\ retained = {}
    /\ <<3, 1>> \notin DOMAIN cohort_pivot
    /\ results[1].RetentionPct = 10000

\* Two joiners of the prior month of whom one returns: both algorithms
\* give 50%.
C24_WitnessHalf ==
    /\ IterationDone
    /\ months[i] = months[i - 1] + 1
    /\ prev_joiners_only = {"A", "B"}
    /\ retention_rate = <<100, 2>>
    /\ retention[<<months[i - 1], 1>>] = <<100, 2>>

\* ------------------------------------------------------------------------
\* The counts of the threshold scenario: prev (March) {A: 3, B: 5}, latest
\* (April) {A: 2, B: 0}.
ScenarioCounts ==
    /\ MonthCount(LoadFrame(sheet), "A", 3) = 3
    /\ MonthCount(LoadFrame(sheet), "B", 3) = 5
    /\ MonthCount(LoadFrame(sheet), "A", 4) = 2
    /\ MonthCount(LoadFrame(sheet), "B", 4) = 0

\* The people whose first session predates latest date - 2 months.
JoinedBeforeCutoff == {p \in Attendees : PredatesCutoff(FirstEventDate(p), LatestEventDate)}

RanksOf(label) == {r \in 1..total_count : label[1] <= r /\ r <= label[2]}

\* C25 as stated: for every total_count >= 1 and every selectable number
\* of groups the labels of the dropdown partition the ranked participants:
\* every label a-b has 1 <= a <= b <= total_count and every rank
\* 1..total_count lies in the range of exactly one label.
C25_LabelsPartitionRanks ==
    (eng_pc = "mainloop" /\ total_count >= 1) =>
        /\ \A k \in DOMAIN dropdown :
            /\ 1 <= dropdown[k][1]
            /\ dropdown[k][1] <= dropdown[k][2]
            /\ dropdown[k][2] <= total_count
        /\ \A r \in 1..total_count :
            Cardinality({k \in DOMAIN dropdown : r \in RanksOf(dropdown[k])}) = 1

\* The part of C25 that fails even when the empty and reversed labels are
\* set aside: every rank is in the range of some label, so that every
\* participant can be displayed.
C25_EveryRankHasLabel ==
    (eng_pc = "mainloop" /\ total_count >= 1) =>
        \A r \in 1..total_count : \E k \in DOMAIN dropdown : r \in RanksOf(dropdown[k])

\* ------------------------------------------------------------------------
\* A child launched by run_geospatial has not yet ended, as the dashboard
\* sees it.
GeoChildPending == geo_process \in {"Starting", "Running"}

\* C27 as stated, the invariant: the button is disabled if and only if a
\* child process launched by run_geospatial has not yet ended.
C27_DisabledIffChildPending ==
    AppRunning => (~run_geo_btn.enabled <=> GeoChildPending)

\* C27 as stated, the progress: after a launch has ended, a launch that
\* failed to start included, the button is eventually enabled again.
C27_EnabledAfterEveryEnd ==
    (AppRunning /\ geo_process = "NotRunning") ~> run_geo_btn.enabled

\* The part of C27 that the code keeps: the button is disabled while a
\* child is pending, so that no second child is launched beside it, and a
\* child that had started and ended re-enables the button.
C27_DisabledWhileChildPending ==
    AppRunning => (GeoChildPending => ~run_geo_btn.enabled)

\* ------------------------------------------------------------------------
\* The weeks of the attendance scenario, read off the snapshot: W1 is the
\* week of its earliest record and W2 the week after it.
ScenarioW1 == MinusDays(Min({sheet[k].date : k \in DOMAIN sheet}),
                        DayOfWeek(Min({sheet[k].date : k \in DOMAIN sheet})))

ScenarioW2 == MinusDays(ScenarioW1, 0 - 7)

\* The distinct days of person p in Monday to Friday of the week of monday
DaysInWeek(p, monday) ==
    {sheet[k].date : k \in {j \in DOMAIN sheet :
        /\ sheet[j].id = p
        /\ DayNumber(sheet[j].date) - DayNumber(monday) \in 0..4}}

AllDaysOf(p) == {sheet[k].date : k \in {j \in DOMAIN sheet : sheet[j].id = p}}

\* A on 3 days of W1 and 2 days of W2, B on 5 days of W1, and no other
\* record.
ScenarioAttendance ==
    /\ sheet # <<>>
    /\ {sheet[k].id : k \in DOMAIN sheet} = {"A", "B"}
    /\ Cardinality(DaysInWeek("A", ScenarioW1)) = 3
    /\ Cardinality(DaysInWeek("A", ScenarioW2)) = 2
    /\ Cardinality(DaysInWeek("B", ScenarioW1)) = 5
    /\ AllDaysOf("A") = DaysInWeek("A", ScenarioW1) \cup DaysInWeek("A", ScenarioW2)
    /\ AllDaysOf("B") = DaysInWeek("B", ScenarioW1)

\* Both scripts have built their tables.
ScenarioTablesBuilt == ScenarioAttendance /\ eng_pc = "pivot" /\ CohortBuilt

\* The weekly matrix is A: [3, 2], B: [5, 0].
ScenarioMatrix ==
    /\ DOMAIN pivot_df = {"A", "B"} \X {ScenarioW1, ScenarioW2}
    /\ pivot_df[<<"A", ScenarioW1>>] = 3
    /\ pivot_df[<<"A", ScenarioW2>>] = 2
    /\ pivot_df[<<"B", ScenarioW1>>] = 5
    /\ pivot_df[<<"B", ScenarioW2>>] = 0

\* The window of the cohort table that holds W1's Monday.
ScenarioJoinWindow == ToPeriodM(ScenarioW1)

\* The people with a record in the calendar month after the join window.
PresentNextMonth ==
    {p \in {"A", "B"} : \E d \in AllDaysOf(p) : ToPeriodM(d) = ScenarioJoinWindow + 1}

====
